---- MODULE Spec2Model ----
(***************************************************************************)
(* State-machine model of src/main.py: the QuoteManager (history,          *)
(* favorites, current_quote and the two JSON files) and the parts of       *)
(* KanyeQuoteApp that drive it (the background fetch threads, the Tk       *)
(* event queue, the favorites window, auto-refresh and quit).              *)
(***************************************************************************)
EXTENDS Integers, Sequences, FiniteSets, TLC

VARIABLES
    history,          \* QuoteManager.history: sequence of [quote, timestamp]
    favorites,        \* QuoteManager.favorites: sequence of quote texts
    current_quote,    \* QuoteManager.current_quote
    favFile,          \* Config.FAVORITES_FILE on disk
    histFile,         \* Config.HISTORY_FILE on disk
    now,              \* the clock datetime.now() reads
    is_loading,       \* KanyeQuoteApp.is_loading
    threads,          \* background _fetch_quote threads, by position
    queue,            \* callbacks posted with window.after(0, ...), FIFO
    windows,          \* open favorites windows: the listbox row count of each, ascending
    auto_refresh_var, \* the auto-refresh checkbox
    auto_refresh_id,  \* KanyeQuoteApp.auto_refresh_id (0 is None)
    timers,           \* pending window.after(10000, ...) timers, by id
    running,          \* the process is alive and in mainloop
    failures,         \* writes that have failed so far
    lastOp            \* the last handler that changed the session, how its save
                      \* ended, and whether it repeated a toggle_favorite

vars == <<history, favorites, current_quote, favFile, histFile, now,
          is_loading, threads, queue, windows, auto_refresh_var,
          auto_refresh_id, timers, running, failures, lastOp>>

---------------------------------------------------------------------------
(* Bounds of the model *)

\* history insertions (clock readings) a behaviour may make
MaxClock == 2
\* favorites windows open at the same time
MaxWindows == 1
\* failing writes (I/O errors in save_data) a behaviour may meet
MaxFailures == 1
\* ids available for pending auto-refresh timers
MaxTimers == 2

(* Program constants *)

\* save_data keeps the last 50 history entries: history[-50:]
HistoryCap == 50

\* Config.FALLBACK_QUOTES, cut down to one of its fourteen entries
FALLBACK_QUOTES == << "I feel calm but energized." >>

\* the non-empty quote texts the remote API answers with
ApiQuotes == { "live quote" }

\* every quote text the program can meet
Quotes == ApiQuotes \cup { FALLBACK_QUOTES[i] : i \in DOMAIN FALLBACK_QUOTES }

\* what one requests.get(...) / response.json() can end in
FetchOutcomes ==
    { [kind |-> "ok", quote |-> q] : q \in ApiQuotes }
    \cup { [kind |-> k, quote |-> ""] :
             k \in { "empty", "timeout", "connection", "http_error", "bad_json" } }

---------------------------------------------------------------------------
(* Python list operations *)

\* x in list
Contains(list, x) == \E i \in DOMAIN list : list[i] = x

\* index of the first occurrence of x (0 when absent)
IndexOf(list, x) ==
    IF Contains(list, x)
    THEN CHOOSE i \in DOMAIN list :
             list[i] = x /\ \A j \in 1..(i - 1) : list[j] # x
    ELSE 0

\* del list[i]
DeleteAt(list, i) == SubSeq(list, 1, i - 1) \o SubSeq(list, i + 1, Len(list))

\* list.remove(x): deletes the first occurrence of x
ListRemove(list, x) == DeleteAt(list, IndexOf(list, x))

\* LastN with the slice taken from the wrong end: list[:n]
LastN_first(list, n) ==
    IF Len(list) > n THEN SubSeq(list, 1, n) ELSE list

\* list[-n:]
LastN(list, n) ==
    IF Len(list) > n THEN SubSeq(list, Len(list) - n + 1, Len(list)) ELSE list

\* list with x put in before its first greater element
RECURSIVE Insert(_, _)
Insert(list, x) ==
    IF list = << >> \/ x <= list[1] THEN << x >> \o list
    ELSE << list[1] >> \o Insert(Tail(list), x)

\* datetime.isoformat() of the clock reading t
isoformat(t) == ToString(t)

---------------------------------------------------------------------------
(* JSON text, as a sequence of tokens *)

Punct(c) == [t |-> c, s |-> ""]
Str(s) == [t |-> "str", s |-> s]

\* DumpEntry with the timestamp's value lost
DumpEntry_blank_timestamp(e) ==
    << Punct("{"), Str("quote"), Punct(":"), Str(e.quote), Punct(","),
       Str("timestamp"), Punct(":"), Str(""), Punct("}") >>

\* json.dump of one history entry: {"quote": ..., "timestamp": ...}
DumpEntry(e) ==
    << Punct("{"), Str("quote"), Punct(":"), Str(e.quote), Punct(","),
       Str("timestamp"), Punct(":"), Str(e.timestamp), Punct("}") >>

\* json.dump of one element of a list: a string or an entry
DumpValue(v, isEntry) == IF isEntry THEN DumpEntry(v) ELSE << Str(v) >>

RECURSIVE DumpElements(_, _)
DumpElements(list, isEntry) ==
    IF list = << >> THEN << >>
    ELSE IF Len(list) = 1 THEN DumpValue(list[1], isEntry)
    ELSE DumpValue(list[1], isEntry) \o << Punct(",") >>
         \o DumpElements(Tail(list), isEntry)

\* json.dump(list, f)
json_dump(list, isEntry) ==
    << Punct("[") >> \o DumpElements(list, isEntry) \o << Punct("]") >>

ParseError == [ok |-> FALSE, value |-> << >>, rest |-> << >>]

\* the members of an object after "{": "key": "string" pairs up to "}"
RECURSIVE ParseMembers(_, _)
ParseMembers(toks, acc) ==
    IF Len(toks) < 4 THEN ParseError
    ELSE IF toks[1].t # "str" \/ toks[2].t # ":" \/ toks[3].t # "str"
    THEN ParseError
    ELSE LET obj == (toks[1].s :> toks[3].s) @@ acc
         IN  IF toks[4].t = "}"
             THEN [ok |-> TRUE, value |-> obj, rest |-> SubSeq(toks, 5, Len(toks))]
             ELSE IF toks[4].t = ","
             THEN ParseMembers(SubSeq(toks, 5, Len(toks)), obj)
             ELSE ParseError

\* one JSON value at the front of toks: a string or an object
ParseValue(toks) ==
    IF toks = << >> THEN ParseError
    ELSE IF toks[1].t = "str"
    THEN [ok |-> TRUE, value |-> toks[1].s, rest |-> Tail(toks)]
    ELSE IF toks[1].t = "{"
    THEN ParseMembers(Tail(toks), << >>)
    ELSE ParseError

\* the elements of an array after "[", up to the closing "]"
RECURSIVE ParseElements(_, _)
ParseElements(toks, acc) ==
    LET v == ParseValue(toks)
    IN  IF ~v.ok \/ v.rest = << >> THEN ParseError
        ELSE IF v.rest[1].t = "]"
        THEN [ok |-> Len(v.rest) = 1, value |-> Append(acc, v.value), rest |-> << >>]
        ELSE IF v.rest[1].t = ","
        THEN ParseElements(Tail(v.rest), Append(acc, v.value))
        ELSE ParseError

\* json.load(f): the list the text holds, or ok = FALSE where json.load raises
json_load(text) ==
    IF Len(text) < 2 \/ text[1].t # "[" THEN ParseError
    ELSE IF text[2].t = "]"
    THEN [ok |-> Len(text) = 2, value |-> << >>, rest |-> << >>]
    ELSE ParseElements(Tail(text), << >>)

---------------------------------------------------------------------------
(* Files *)

Missing == [exists |-> FALSE, text |-> << >>]
FileOf(text) == [exists |-> TRUE, text |-> text]

---------------------------------------------------------------------------
(* QuoteManager *)

\* QuoteManager._load_data, for one file: the list it holds, or [] when the
\* file is missing or json.load raises
LoadFile(file) ==
    IF file.exists /\ json_load(file.text).ok
    THEN json_load(file.text).value
    ELSE << >>

\* _load_data with both files read in one try block: a favorites file that
\* cannot be read leaves the history unread too
_load_data_one_try(ff, hf) ==
    IF ff.exists /\ ~json_load(ff.text).ok
    THEN [favorites |-> << >>, history |-> << >>]
    ELSE [favorites |-> LoadFile(ff), history |-> LoadFile(hf)]

\* QuoteManager.__init__ and _load_data
_load_data(ff, hf) ==
    [favorites |-> LoadFile(ff), history |-> LoadFile(hf)]

\* the file a dump that fails leaves: open(..., 'w') has emptied it and
\* nothing of the buffered text got to disk
Truncated == [exists |-> TRUE, text |-> << >>]

\* save_data that writes the favorites file only
save_data_favorites_only(favs, hist, ff, hf) ==
    LET favText == json_dump(favs, FALSE)
    IN  { [fav |-> FileOf(favText), hist |-> hf, io |-> "ok"] }
        \cup { [fav |-> ff, hist |-> hf, io |-> "fail"] }
        \cup { [fav |-> Truncated, hist |-> hf, io |-> "fail"] }

\* QuoteManager.save_data: every way the writes can end (the except clause
\* swallows the failure): all written; mkdir or the first open fails; the
\* favorites dump fails; the second open fails; the history dump fails
save_data(favs, hist, ff, hf) ==
    LET favText  == json_dump(favs, FALSE)
        histText == json_dump(LastN(hist, HistoryCap), TRUE)
    IN  { [fav |-> FileOf(favText), hist |-> FileOf(histText), io |-> "ok"] }
        \cup { [fav |-> ff, hist |-> hf, io |-> "fail"] }
        \cup { [fav |-> Truncated, hist |-> hf, io |-> "fail"] }
        \cup { [fav |-> FileOf(favText), hist |-> hf, io |-> "fail"] }
        \cup { [fav |-> FileOf(favText), hist |-> Truncated, io |-> "fail"] }

\* add_to_history with the entry put in at the front: history.insert(0, entry)
add_to_history_front(hist, quote, t) ==
    [history |-> << [quote |-> quote, timestamp |-> isoformat(t)] >> \o hist,
     current_quote |-> quote]

\* QuoteManager.add_to_history
add_to_history(hist, quote, t) ==
    [history |-> Append(hist, [quote |-> quote, timestamp |-> isoformat(t)]),
     current_quote |-> quote]

\* toggle_favorite that answers True on both branches
toggle_favorite_always_true(favs, quote) ==
    IF Contains(favs, quote)
    THEN [favorites |-> ListRemove(favs, quote), ret |-> TRUE]
    ELSE [favorites |-> Append(favs, quote), ret |-> TRUE]

\* toggle_favorite without the membership test: it always appends
toggle_favorite_add_only(favs, quote) ==
    [favorites |-> Append(favs, quote), ret |-> TRUE]

\* toggle_favorite that puts a new favorite first: favorites.insert(0, quote)
toggle_favorite_front(favs, quote) ==
    IF Contains(favs, quote)
    THEN [favorites |-> ListRemove(favs, quote), ret |-> FALSE]
    ELSE [favorites |-> << quote >> \o favs, ret |-> TRUE]

\* QuoteManager.toggle_favorite
toggle_favorite(favs, quote) ==
    IF Contains(favs, quote)
    THEN [favorites |-> ListRemove(favs, quote), ret |-> FALSE]
    ELSE [favorites |-> Append(favs, quote), ret |-> TRUE]

\* is_favorite that looks at the first favorite only
is_favorite_first(favs, quote) == favs # << >> /\ favs[1] = quote

\* QuoteManager.is_favorite
is_favorite(favs, quote) == Contains(favs, quote)

\* get_random_favorite that answers a built-in quote when there are no favorites
get_random_favorite_fallback(favs) ==
    IF favs # << >> THEN { favs[i] : i \in DOMAIN favs }
    ELSE { FALLBACK_QUOTES[i] : i \in DOMAIN FALLBACK_QUOTES }

\* QuoteManager.get_random_favorite: the values random.choice can return
get_random_favorite(favs) ==
    IF favs # << >> THEN { favs[i] : i \in DOMAIN favs } ELSE { "" }

---------------------------------------------------------------------------
(* KanyeQuoteApp *)

\* what lastOp records of a handler
Op(op, io) == [op |-> op, io |-> io, twice |-> FALSE]

Callback(cb, arg) == [cb |-> cb, arg |-> arg]

\* Save whose except clause misses the failure: the exception leaves save_data
Save_raising(favs, hist, op) ==
    \E out \in save_data(favs, hist, favFile, histFile) :
        /\ out.io = "fail" => failures < MaxFailures
        /\ favFile' = out.fav
        /\ histFile' = out.hist
        /\ failures' = IF out.io = "fail" THEN failures + 1 ELSE failures
        /\ lastOp' = [Op(op, IF out.io = "fail" THEN "raise" ELSE out.io) EXCEPT
                         !.twice = op = "toggle_favorite" /\ lastOp.op = op]

\* handler op calls quote_manager.save_data() with favs and hist in memory
Save(favs, hist, op) ==
    \E out \in save_data(favs, hist, favFile, histFile) :
        /\ out.io = "fail" => failures < MaxFailures
        /\ favFile' = out.fav
        /\ histFile' = out.hist
        /\ failures' = IF out.io = "fail" THEN failures + 1 ELSE failures
        /\ lastOp' = [Op(op, out.io) EXCEPT
                         !.twice = op = "toggle_favorite" /\ lastOp.op = op]

\* history insertions still to come from threads in flight and posted callbacks
Pending ==
    threads.start + threads.request
    + Cardinality({ i \in DOMAIN queue : queue[i].cb # "_show_loading" })

\* history insertions the bound still allows
Budget == MaxClock - (now - 1) - Pending

\* CompletionFor without the test "if quote:": an empty quote is displayed
CompletionFor_empty_displayed(o) ==
    IF o.kind \in { "ok", "empty" } THEN Callback("_display_quote", o.quote)
    ELSE IF o.kind = "timeout" THEN Callback("_handle_error", "timeout")
    ELSE IF o.kind = "connection" THEN Callback("_handle_error", "connection")
    ELSE Callback("_handle_error", "unknown")

\* the callback _fetch_quote posts for an outcome of the request
CompletionFor(o) ==
    IF o.kind = "ok" THEN Callback("_display_quote", o.quote)
    ELSE IF o.kind = "timeout" THEN Callback("_handle_error", "timeout")
    ELSE IF o.kind = "connection" THEN Callback("_handle_error", "connection")
    ELSE Callback("_handle_error", "unknown")

\* KanyeQuoteApp.get_quote, called from a handler: the threads afterwards
get_quote(loading, thr) ==
    IF loading THEN thr ELSE [thr EXCEPT !.start = @ + 1]

\* a handler that calls get_quote can run within the bound
CanGetQuote == is_loading \/ Budget > 0

\* KanyeQuoteApp.get_quote from the button or the keyboard
GetQuote ==
    /\ running
    /\ CanGetQuote
    /\ threads' = get_quote(is_loading, threads)
    /\ UNCHANGED <<history, favorites, current_quote, favFile, histFile, now,
                   is_loading, queue, windows, auto_refresh_var,
                   auto_refresh_id, timers, running, failures, lastOp>>

\* _fetch_quote, line 428: the thread posts _show_loading(True)
FetchPostLoading ==
    /\ running
    /\ threads.start > 0
    /\ threads' = [start |-> threads.start - 1, request |-> threads.request + 1]
    /\ queue' = Append(queue, Callback("_show_loading", ""))
    /\ UNCHANGED <<history, favorites, current_quote, favFile, histFile, now,
                   is_loading, windows, auto_refresh_var, auto_refresh_id,
                   timers, running, failures, lastOp>>

\* _fetch_quote, lines 430-450: the request ends and the thread posts its result
FetchFinish ==
    /\ running
    /\ threads.request > 0
    /\ \E cb \in { CompletionFor(o) : o \in FetchOutcomes } :
           queue' = Append(queue, cb)
    /\ threads' = [threads EXCEPT !.request = @ - 1]
    /\ UNCHANGED <<history, favorites, current_quote, favFile, histFile, now,
                   is_loading, windows, auto_refresh_var, auto_refresh_id,
                   timers, running, failures, lastOp>>

\* KanyeQuoteApp._show_loading
_show_loading(show) == is_loading' = show

\* KanyeQuoteApp._display_quote, run for handler op
_display_quote(quote, op) ==
    LET added == add_to_history(history, quote, now)
    IN  /\ _show_loading(FALSE)
        /\ history' = added.history
        /\ current_quote' = added.current_quote
        /\ now' = now + 1
        /\ Save(favorites, added.history, op)
        /\ UNCHANGED favorites

\* _handle_error that shows the fallback without add_to_history
_handle_error_unrecorded(error_type) ==
    /\ _show_loading(FALSE)
    /\ lastOp' = Op("_handle_error", "none")
    /\ UNCHANGED <<history, current_quote, now, favorites, favFile, histFile,
                   failures>>

\* _handle_error without its first line, _show_loading(False)
_handle_error_keeps_loading(error_type) ==
    \E i \in DOMAIN FALLBACK_QUOTES :
        LET added == add_to_history(history, FALLBACK_QUOTES[i], now)
        IN  /\ UNCHANGED is_loading
            /\ history' = added.history
            /\ current_quote' = added.current_quote
            /\ now' = now + 1
            /\ lastOp' = Op("_handle_error", "none")
            /\ UNCHANGED <<favorites, favFile, histFile, failures>>

\* KanyeQuoteApp._handle_error
_handle_error(error_type) ==
    \E i \in DOMAIN FALLBACK_QUOTES :
        LET added == add_to_history(history, FALLBACK_QUOTES[i], now)
        IN  /\ _show_loading(FALSE)
            /\ history' = added.history
            /\ current_quote' = added.current_quote
            /\ now' = now + 1
            /\ lastOp' = Op("_handle_error", "none")
            /\ UNCHANGED <<favorites, favFile, histFile, failures>>

\* an event loop that runs the newest posted callback first
RunCallback_newest_first ==
    /\ running
    /\ queue # << >>
    /\ queue' = SubSeq(queue, 1, Len(queue) - 1)
    /\ \/ /\ queue[Len(queue)].cb = "_show_loading"
          /\ _show_loading(TRUE)
          /\ UNCHANGED <<history, favorites, current_quote, favFile, histFile,
                         now, failures, lastOp>>
       \/ /\ queue[Len(queue)].cb = "_display_quote"
          /\ _display_quote(queue[Len(queue)].arg, "_display_quote")
       \/ /\ queue[Len(queue)].cb = "_handle_error"
          /\ _handle_error(queue[Len(queue)].arg)
    /\ UNCHANGED <<threads, windows, auto_refresh_var, auto_refresh_id, timers,
                   running>>

\* the event loop runs the oldest posted callback
RunCallback ==
    /\ running
    /\ queue # << >>
    /\ queue' = Tail(queue)
    /\ \/ /\ Head(queue).cb = "_show_loading"
          /\ _show_loading(TRUE)
          /\ UNCHANGED <<history, favorites, current_quote, favFile, histFile,
                         now, failures, lastOp>>
       \/ /\ Head(queue).cb = "_display_quote"
          /\ _display_quote(Head(queue).arg, "_display_quote")
       \/ /\ Head(queue).cb = "_handle_error"
          /\ _handle_error(Head(queue).arg)
    /\ UNCHANGED <<threads, windows, auto_refresh_var, auto_refresh_id, timers,
                   running>>

\* KanyeQuoteApp.toggle_favorite without "if not quote: return"
ToggleFavorite_unguarded ==
    /\ running
    /\ LET toggled == toggle_favorite(favorites, current_quote)
       IN  /\ favorites' = toggled.favorites
           /\ Save(toggled.favorites, history, "toggle_favorite")
    /\ UNCHANGED <<history, current_quote, now, is_loading, threads, queue,
                   windows, auto_refresh_var, auto_refresh_id, timers, running>>

\* KanyeQuoteApp.toggle_favorite (the Favorite button, the F key)
ToggleFavorite ==
    /\ running
    /\ \/ /\ current_quote = ""
          /\ UNCHANGED <<favorites, favFile, histFile, failures, lastOp>>
       \/ /\ current_quote # ""
          /\ LET toggled == toggle_favorite(favorites, current_quote)
             IN  /\ favorites' = toggled.favorites
                 /\ Save(toggled.favorites, history, "toggle_favorite")
    /\ UNCHANGED <<history, current_quote, now, is_loading, threads, queue,
                   windows, auto_refresh_var, auto_refresh_id, timers, running>>

\* KanyeQuoteApp.show_favorites: a message box when there are no favorites,
\* otherwise a new window whose listbox is filled from favorites
ShowFavorites ==
    /\ running
    /\ \/ /\ favorites = << >>
          /\ UNCHANGED windows
       \/ /\ favorites # << >>
          /\ Len(windows) < MaxWindows
          /\ windows' = Insert(windows, Len(favorites))
    /\ UNCHANGED <<history, favorites, current_quote, favFile, histFile, now,
                   is_loading, threads, queue, auto_refresh_var,
                   auto_refresh_id, timers, running, failures, lastOp>>

\* show_favorites.use_selected in window w with row index selected (the
\* code reads only the row's index; favorites[index] raises IndexError when
\* favorites has become shorter than the listbox)
UseSelected(w, index) ==
    /\ running
    /\ \/ /\ index > Len(favorites)
          /\ UNCHANGED <<history, favorites, current_quote, favFile, histFile,
                         now, is_loading, windows, failures, lastOp>>
       \/ /\ index <= Len(favorites)
          /\ Budget > 0
          /\ _display_quote(favorites[index], "use_selected")
          /\ windows' = DeleteAt(windows, w)
    /\ UNCHANGED <<threads, queue, auto_refresh_var, auto_refresh_id, timers,
                   running>>

\* show_favorites.remove_selected in window w with row index selected
RemoveSelected(w, index) ==
    /\ running
    /\ \/ /\ index > Len(favorites)
          /\ UNCHANGED <<favorites, favFile, histFile, windows, failures, lastOp>>
       \/ /\ index <= Len(favorites)
          /\ LET quote   == favorites[index]
                 removed == ListRemove(favorites, quote)
             IN  /\ favorites' = removed
                 /\ Save(removed, history, "remove_selected")
          /\ windows' = Insert(DeleteAt(windows, w), windows[w] - 1)
    /\ UNCHANGED <<history, current_quote, now, is_loading, threads, queue,
                   auto_refresh_var, auto_refresh_id, timers, running>>

\* the Random Favorite button of window w
RandomFavorite(w) ==
    /\ running
    /\ Budget > 0
    /\ \E quote \in get_random_favorite(favorites) :
           _display_quote(quote, "random_favorite")
    /\ windows' = DeleteAt(windows, w)
    /\ UNCHANGED <<threads, queue, auto_refresh_var, auto_refresh_id, timers,
                   running>>

\* the user closes favorites window w
CloseFavorites(w) ==
    /\ running
    /\ windows' = DeleteAt(windows, w)
    /\ UNCHANGED <<history, favorites, current_quote, favFile, histFile, now,
                   is_loading, threads, queue, auto_refresh_var,
                   auto_refresh_id, timers, running, failures, lastOp>>

\* window.after(10000, ...): the id of the new timer, one no pending timer has
NewTimerId(pending) ==
    CHOOSE id \in 1..MaxTimers :
        id \notin pending /\ \A j \in 1..(id - 1) : j \in pending

CanSchedule(pending) == \E id \in 1..MaxTimers : id \notin pending

\* KanyeQuoteApp._start_auto_refresh, with the timers pending when it runs
_start_auto_refresh(pending) ==
    /\ CanGetQuote
    /\ CanSchedule(pending)
    /\ threads' = get_quote(is_loading, threads)
    /\ auto_refresh_id' = NewTimerId(pending)
    /\ timers' = pending \cup { NewTimerId(pending) }

\* _stop_auto_refresh without window.after_cancel: it only forgets the id
_stop_auto_refresh_no_cancel(id, pending) ==
    [auto_refresh_id |-> 0, timers |-> pending]

\* _stop_auto_refresh that cancels the timer and keeps its id
_stop_auto_refresh_keeps_id(id, pending) ==
    [auto_refresh_id |-> id, timers |-> pending \ {id}]

\* KanyeQuoteApp._stop_auto_refresh: the id and the timers afterwards
_stop_auto_refresh(id, pending) ==
    IF id # 0
    THEN [auto_refresh_id |-> 0, timers |-> pending \ {id}]
    ELSE [auto_refresh_id |-> id, timers |-> pending]

\* KanyeQuoteApp._toggle_auto_refresh: the checkbox flips, then the handler runs
ToggleAutoRefresh ==
    /\ running
    /\ auto_refresh_var' = ~auto_refresh_var
    /\ \/ /\ auto_refresh_var'
          /\ _start_auto_refresh(timers)
       \/ /\ ~auto_refresh_var'
          /\ auto_refresh_id' = _stop_auto_refresh(auto_refresh_id, timers).auto_refresh_id
          /\ timers' = _stop_auto_refresh(auto_refresh_id, timers).timers
          /\ UNCHANGED threads
    /\ UNCHANGED <<history, favorites, current_quote, favFile, histFile, now,
                   is_loading, queue, windows, running, failures, lastOp>>

\* a pending auto-refresh timer fires and runs _start_auto_refresh
TimerFire(id) ==
    /\ running
    /\ id \in timers
    /\ _start_auto_refresh(timers \ {id})
    /\ UNCHANGED <<history, favorites, current_quote, favFile, histFile, now,
                   is_loading, queue, windows, auto_refresh_var, running, failures, lastOp>>

\* KanyeQuoteApp.quit_app; mainloop and main() return, and the daemon
\* threads, the posted callbacks and the widgets go with the process
QuitApp ==
    /\ running
    /\ auto_refresh_id' = _stop_auto_refresh(auto_refresh_id, timers).auto_refresh_id
    /\ timers' = _stop_auto_refresh(auto_refresh_id, timers).timers
    /\ Save(favorites, history, "quit_app")
    /\ running' = FALSE
    /\ threads' = [start |-> 0, request |-> 0]
    /\ queue' = << >>
    /\ windows' = << >>
    /\ is_loading' = FALSE
    /\ auto_refresh_var' = FALSE
    /\ UNCHANGED <<history, favorites, current_quote, now>>

\* main(): KanyeQuoteApp.__init__ in a new process over the same data directory
Start ==
    /\ ~running
    /\ now <= MaxClock
    /\ favorites' = _load_data(favFile, histFile).favorites
    /\ history' = _load_data(favFile, histFile).history
    /\ current_quote' = ""
    /\ is_loading' = FALSE
    /\ auto_refresh_var' = FALSE
    /\ auto_refresh_id' = 0
    /\ timers' = {}
    /\ queue' = << >>
    /\ windows' = << >>
    /\ threads' = get_quote(FALSE, [start |-> 0, request |-> 0])
    /\ running' = TRUE
    /\ lastOp' = Op("__init__", "none")
    /\ UNCHANGED <<favFile, histFile, now, failures>>

\* the state KanyeQuoteApp.__init__ leaves over an empty data directory
Init ==
    /\ history = << >>
    /\ favorites = << >>
    /\ current_quote = ""
    /\ favFile = Missing
    /\ histFile = Missing
    /\ now = 1
    /\ is_loading = FALSE
    /\ threads = get_quote(FALSE, [start |-> 0, request |-> 0])
    /\ queue = << >>
    /\ windows = << >>
    /\ auto_refresh_var = FALSE
    /\ auto_refresh_id = 0
    /\ timers = {}
    /\ running = TRUE
    /\ failures = 0
    /\ lastOp = Op("__init__", "none")

Next ==
    \/ GetQuote
    \/ FetchPostLoading
    \/ FetchFinish
    \/ RunCallback
    \/ ToggleFavorite
    \/ ShowFavorites
    \/ \E w \in DOMAIN windows : \E index \in 1..windows[w] : UseSelected(w, index)
    \/ \E w \in DOMAIN windows : \E index \in 1..windows[w] : RemoveSelected(w, index)
    \/ \E w \in DOMAIN windows : RandomFavorite(w)
    \/ \E w \in DOMAIN windows : CloseFavorites(w)
    \/ ToggleAutoRefresh
    \/ \E id \in timers : TimerFire(id)
    \/ QuitApp
    \/ Start

Spec == Init /\ [][Next]_vars

---------------------------------------------------------------------------
(* A session over a data directory that earlier sessions filled: the       *)
(* history file holds HistoryCap entries, the favorites file none.         *)

StoredHistory ==
    [i \in 1..HistoryCap |->
        [quote |-> IF i % 2 = 0 THEN FALLBACK_QUOTES[1] ELSE "live quote",
         timestamp |-> isoformat(i - HistoryCap)]]

InitCap ==
    /\ favFile = FileOf(json_dump(<< >>, FALSE))
    /\ histFile = FileOf(json_dump(StoredHistory, TRUE))
    /\ favorites = _load_data(favFile, histFile).favorites
    /\ history = _load_data(favFile, histFile).history
    /\ current_quote = ""
    /\ now = 1
    /\ is_loading = FALSE
    /\ threads = get_quote(FALSE, [start |-> 0, request |-> 0])
    /\ queue = << >>
    /\ windows = << >>
    /\ auto_refresh_var = FALSE
    /\ auto_refresh_id = 0
    /\ timers = {}
    /\ running = TRUE
    /\ failures = 0
    /\ lastOp = Op("__init__", "none")

NextCap ==
    \/ GetQuote
    \/ FetchPostLoading
    \/ FetchFinish
    \/ RunCallback
    \/ ToggleFavorite
    \/ QuitApp
    \/ Start

SpecCap == InitCap /\ [][NextCap]_vars

---------------------------------------------------------------------------
(* The fetch cycle under the scheduling the program relies on: a started   *)
(* thread runs, requests.get returns or raises within Config.API_TIMEOUT,  *)
(* and mainloop keeps running the callbacks posted with window.after.      *)

NextLive ==
    \/ GetQuote
    \/ FetchPostLoading
    \/ FetchFinish
    \/ RunCallback
    \/ ToggleAutoRefresh
    \/ \E id \in timers : TimerFire(id)
    \/ QuitApp
    \/ Start

SpecLive ==
    /\ Init
    /\ [][NextLive]_vars
    /\ WF_vars(FetchPostLoading)
    /\ WF_vars(FetchFinish)
    /\ WF_vars(RunCallback)

---------------------------------------------------------------------------
(* Auto-refresh on its own: the session right after the user has ticked    *)
(* the checkbox at startup, with no request from the button or keyboard,   *)
(* so that every fetch is the startup one or one a timer or the checkbox   *)
(* started. Scheduling as in SpecLive.                                     *)

InitAuto ==
    /\ history = << >>
    /\ favorites = << >>
    /\ current_quote = ""
    /\ favFile = Missing
    /\ histFile = Missing
    /\ now = 1
    /\ is_loading = FALSE
    /\ threads = get_quote(FALSE, get_quote(FALSE, [start |-> 0, request |-> 0]))
    /\ queue = << >>
    /\ windows = << >>
    /\ auto_refresh_var = TRUE
    /\ auto_refresh_id = NewTimerId({})
    /\ timers = { NewTimerId({}) }
    /\ running = TRUE
    /\ failures = 0
    /\ lastOp = Op("__init__", "none")

NextAuto ==
    \/ FetchPostLoading
    \/ FetchFinish
    \/ RunCallback
    \/ ToggleAutoRefresh
    \/ \E id \in timers : TimerFire(id)
    \/ QuitApp

SpecAuto ==
    /\ InitAuto
    /\ [][NextAuto]_vars
    /\ WF_vars(FetchPostLoading)
    /\ WF_vars(FetchFinish)
    /\ WF_vars(RunCallback)

---------------------------------------------------------------------------
(* A session over the data directory of an earlier session that displayed  *)
(* one quote and made it a favorite.                                       *)

InitFav ==
    /\ favFile = FileOf(json_dump(<< FALLBACK_QUOTES[1] >>, FALSE))
    /\ histFile = FileOf(json_dump(<< [quote |-> FALLBACK_QUOTES[1],
                                       timestamp |-> isoformat(0)] >>, TRUE))
    /\ favorites = _load_data(favFile, histFile).favorites
    /\ history = _load_data(favFile, histFile).history
    /\ current_quote = ""
    /\ now = 1
    /\ is_loading = FALSE
    /\ threads = get_quote(FALSE, [start |-> 0, request |-> 0])
    /\ queue = << >>
    /\ windows = << >>
    /\ auto_refresh_var = FALSE
    /\ auto_refresh_id = 0
    /\ timers = {}
    /\ running = TRUE
    /\ failures = 0
    /\ lastOp = Op("__init__", "none")

SpecFav == InitFav /\ [][Next]_vars

---------------------------------------------------------------------------
(* The QuoteManager on its own, constructed over a data directory that     *)
(* holds any favorites and a short history, and driven through its methods *)
(* the way KanyeQuoteApp calls them (toggle_favorite with a non-empty      *)
(* quote). lastOp records the last call, its argument and what it returned.*)

\* the favorites lists a data directory can hold
StoredFavorites ==
    { f \in UNION { [1..n -> Quotes] : n \in 0..Cardinality(Quotes) } :
        \A i, j \in DOMAIN f : f[i] = f[j] => i = j }

\* the histories a data directory can hold
StoredHistories ==
    { << >> } \cup { << [quote |-> q, timestamp |-> isoformat(0)] >> : q \in Quotes }

\* what lastOp records of a QuoteManager call
Call(op, arg, ret) ==
    [op |-> op, io |-> "none", twice |-> FALSE, arg |-> arg, ret |-> ret]

InitQM ==
    /\ \E fs \in StoredFavorites : favFile = FileOf(json_dump(fs, FALSE))
    /\ \E hs \in StoredHistories : histFile = FileOf(json_dump(hs, TRUE))
    /\ favorites = _load_data(favFile, histFile).favorites
    /\ history = _load_data(favFile, histFile).history
    /\ current_quote = ""
    /\ now = 1
    /\ is_loading = FALSE
    /\ threads = [start |-> 0, request |-> 0]
    /\ queue = << >>
    /\ windows = << >>
    /\ auto_refresh_var = FALSE
    /\ auto_refresh_id = 0
    /\ timers = {}
    /\ running = FALSE
    /\ failures = 0
    /\ lastOp = Call("__init__", "", "")

\* quote_manager.is_favorite(quote)
IsFavorite(quote) ==
    /\ lastOp' = Call("is_favorite", quote, is_favorite(favorites, quote))
    /\ UNCHANGED <<history, favorites, current_quote, favFile, histFile, now,
                   is_loading, threads, queue, windows, auto_refresh_var,
                   auto_refresh_id, timers, running, failures>>

\* quote_manager.get_random_favorite()
GetRandomFavorite ==
    /\ \E ret \in get_random_favorite(favorites) :
           lastOp' = Call("get_random_favorite", "", ret)
    /\ UNCHANGED <<history, favorites, current_quote, favFile, histFile, now,
                   is_loading, threads, queue, windows, auto_refresh_var,
                   auto_refresh_id, timers, running, failures>>

\* quote_manager.toggle_favorite(quote)
ToggleFavoriteOf(quote) ==
    /\ favorites' = toggle_favorite(favorites, quote).favorites
    /\ lastOp' = Call("toggle_favorite", quote, toggle_favorite(favorites, quote).ret)
    /\ UNCHANGED <<history, current_quote, favFile, histFile, now,
                   is_loading, threads, queue, windows, auto_refresh_var,
                   auto_refresh_id, timers, running, failures>>

\* quote_manager.save_data()
SaveData ==
    /\ Save(favorites, history, "save_data")
    /\ UNCHANGED <<history, favorites, current_quote, now, is_loading, threads,
                   queue, windows, auto_refresh_var, auto_refresh_id, timers,
                   running>>

NextQM ==
    \/ \E quote \in Quotes \cup { "" } : IsFavorite(quote)
    \/ GetRandomFavorite
    \/ \E quote \in Quotes : ToggleFavoriteOf(quote)
    \/ SaveData

SpecQM == InitQM /\ [][NextQM]_vars

---------------------------------------------------------------------------
(* Properties *)

\* fetch threads that have been started and have not yet posted their result
InFlight == threads.start + threads.request

\* list is the beginning of longer
IsPrefix(list, longer) ==
    Len(list) <= Len(longer) /\ SubSeq(longer, 1, Len(list)) = list

\* list without every element equal to x, the others in their order
Without(list, x) ==
    LET Keep(y) == y # x IN SelectSeq(list, Keep)

\* the event loop runs a posted _display_quote or _handle_error in this step
CompletionStep ==
    /\ running /\ running'
    /\ queue # << >>
    /\ Head(queue).cb \in { "_display_quote", "_handle_error" }
    /\ queue' = Tail(queue)

\* the files hold what save_data writes for the session in memory
FilesSynced ==
    /\ favFile = FileOf(json_dump(favorites, FALSE))
    /\ histFile = FileOf(json_dump(LastN(history, HistoryCap), TRUE))

\* C1: at most one fetch is in flight at any time: a get_quote call made
\* while a fetch has been started and has not completed starts no second one.
AtMostOneFetchInFlight == InFlight <= 1

\* C2: every completed fetch cycle (_display_quote or _handle_error run by the
\* event loop) appends exactly one entry to history, leaves the earlier
\* entries in place, and sets current_quote to the new entry's quote.
FetchCycleAppendsOne ==
    [][CompletionStep =>
          /\ Len(history') = Len(history) + 1
          /\ IsPrefix(history, history')
          /\ current_quote' = history'[Len(history')].quote]_vars

\* C2 witness: a fallback cycle has completed on top of an earlier entry
FetchCycleAppendsOne_witness ==
    /\ lastOp.op = "_handle_error"
    /\ Len(history) = 2
    /\ history[1].quote \in ApiQuotes

\* C3: every failing outcome of the request ends in _handle_error, and once
\* _handle_error has run current_quote is a member of FALLBACK_QUOTES and is
\* the quote of the newest history entry.
FallbackRecorded ==
    /\ \A o \in FetchOutcomes :
           o.kind # "ok" => CompletionFor(o).cb = "_handle_error"
    /\ lastOp.op = "_handle_error" =>
           /\ Contains(FALLBACK_QUOTES, current_quote)
           /\ history # << >>
           /\ history[Len(history)].quote = current_quote

\* C3 witness: a fetch has failed in a session that had shown a live quote
FallbackRecorded_witness ==
    /\ lastOp.op = "_handle_error"
    /\ Contains(FALLBACK_QUOTES, current_quote)
    /\ Len(history) = 2
    /\ history[1].quote # current_quote

\* C4: after every handler that changes favorites or history has returned
\* with no failed write, the favorites file equals the favorites in memory
\* and the history file the last 50 history entries in memory.
WriteThrough ==
    (/\ lastOp.op \in { "_display_quote", "_handle_error", "toggle_favorite",
                        "remove_selected", "use_selected", "random_favorite" }
     /\ lastOp.io # "fail")
    => FilesSynced

\* what the history file holds, as json.load reads it
StoredOnDisk == json_load(histFile.text)

\* the n newest entries of list, oldest first
Newest(list, n) == [i \in 1..n |-> list[Len(list) - n + i]]

\* C5: after a successful save_data the history file holds at most 50
\* entries, exactly the min(50, len(history)) newest entries of the history
\* in memory in their order, and the save has not shortened that history.
SaveKeepsLastFifty ==
    /\ [](lastOp.io = "ok" =>
             LET kept == IF Len(history) < 50 THEN Len(history) ELSE 50
             IN  /\ histFile.exists
                 /\ StoredOnDisk.ok
                 /\ Len(StoredOnDisk.value) <= 50
                 /\ StoredOnDisk.value = Newest(history, kept))
    /\ [][lastOp'.io = "ok" => IsPrefix(history, history')]_vars

\* C5 witness: a save has succeeded with more than 50 entries in memory
SaveKeepsLastFifty_witness ==
    /\ lastOp.io = "ok"
    /\ Len(history) > 50
    /\ Len(StoredOnDisk.value) = 50

\* C6: from every reachable favorites and for every quote q, two successive
\* toggle_favorite(q) calls restore is_favorite(q), and the second call
\* returns the negation of what the first returned.
ToggleTwiceRestores ==
    \A q \in Quotes \cup { "" } :
        LET first  == toggle_favorite(favorites, q)
            second == toggle_favorite(first.favorites, q)
        IN  /\ is_favorite(second.favorites, q) = is_favorite(favorites, q)
            /\ second.ret = ~first.ret

\* C6 witness: the Favorite handler has run twice in a row on a quote, with
\* another quote among the favorites
ToggleTwiceRestores_witness ==
    /\ lastOp.op = "toggle_favorite"
    /\ lastOp.twice
    /\ favorites # << >>
    /\ ~is_favorite(favorites, current_quote)

\* C7: started over an empty data directory, favorites never holds the same
\* quote text twice, whatever toggles, removals, displays, saves and restarts
\* have happened.
NoDuplicateFavorites ==
    \A i, j \in DOMAIN favorites : favorites[i] = favorites[j] => i = j

\* C7 witness: a restarted session has reloaded a favorite from the file
NoDuplicateFavorites_witness ==
    /\ running
    /\ lastOp.op = "__init__"
    /\ favorites # << >>
    /\ now > 1

\* C8: within a session favorites changes only by a quote that was not in it
\* being put after all existing entries, or by exactly one quote being taken
\* out with the others keeping their order.
FavoritesKeepOrder ==
    [][(running /\ running' /\ favorites' # favorites) =>
          \/ \E q \in Quotes \cup { "" } :
                 /\ ~Contains(favorites, q)
                 /\ favorites' = Append(favorites, q)
          \/ \E q \in Quotes \cup { "" } :
                 /\ Contains(favorites, q)
                 /\ favorites' = Without(favorites, q)
                 /\ Len(favorites') = Len(favorites) - 1]_vars

\* C8 witness: A was added, then B, then A removed in the favorites window:
\* favorites is the sequence holding only B
FavoritesKeepOrder_witness ==
    /\ lastOp.op = "remove_selected"
    /\ Len(history) = 2
    /\ history[1].quote # history[2].quote
    /\ favorites = << history[2].quote >>

\* C9: after a save_data that completed without failure, what a fresh
\* QuoteManager loads from the files is the favorites that were saved and the
\* last 50 entries of the history that was saved; and the session main()
\* constructs after such a quit_app holds exactly those.
SaveLoadRoundTrip ==
    /\ [](lastOp.io = "ok" =>
             /\ _load_data(favFile, histFile).favorites = favorites
             /\ _load_data(favFile, histFile).history = LastN(history, HistoryCap))
    /\ [][(~running /\ running' /\ lastOp.io = "ok") =>
             /\ favorites' = favorites
             /\ history' = LastN(history, HistoryCap)]_vars

\* C9 witness: a new session has loaded a favorite and a capped history whose
\* oldest entry is no longer the oldest one of the session before
SaveLoadRoundTrip_witness ==
    /\ running
    /\ lastOp.op = "__init__"
    /\ favorites # << >>
    /\ Len(history) = HistoryCap
    /\ history[1] # StoredHistory[1]

\* a file json.load cannot read: it is missing or holds no complete text
Unreadable(file) == ~file.exists \/ file.text = << >>

\* C10: construction never fails on stored data, and while a session has only
\* just been constructed: favorites is empty if the favorites file is missing
\* or unparseable and is the file's list otherwise, and the same for history
\* and the history file, each whatever the state of the other file.
LoadToleratesBadFiles ==
    /\ (~running /\ now <= MaxClock) => ENABLED Start
    /\ lastOp.op = "__init__" =>
           /\ Unreadable(favFile) => favorites = << >>
           /\ ~Unreadable(favFile) => json_dump(favorites, FALSE) = favFile.text
           /\ Unreadable(histFile) => history = << >>
           /\ ~Unreadable(histFile) => json_dump(history, TRUE) = histFile.text

\* C10 witness: a session constructed over an unparseable favorites file and
\* a valid history file has no favorites and the stored history
LoadToleratesBadFiles_witness ==
    /\ running
    /\ lastOp.op = "__init__"
    /\ favFile = Truncated
    /\ favorites = << >>
    /\ ~Unreadable(histFile)
    /\ history # << >>

\* C11: save_data never raises to its caller. Every save a handler made has
\* returned normally (written, or failed with the failure swallowed), and a
\* step whose save failed leaves history, favorites and current_quote exactly
\* as the handler set them before saving, with the session still running
\* unless the handler was quit_app.
SaveNeverRaises ==
    /\ [](lastOp.io \in { "none", "ok", "fail" })
    /\ [][failures' > failures =>
             LET op == lastOp'.op
             IN  /\ lastOp'.io = "fail"
                 /\ running' = (op # "quit_app")
                 /\ op = "quit_app" =>
                        UNCHANGED <<history, favorites, current_quote>>
                 /\ op = "toggle_favorite" =>
                        /\ UNCHANGED <<history, current_quote>>
                        /\ favorites' = toggle_favorite(favorites, current_quote).favorites
                 /\ op = "remove_selected" =>
                        /\ UNCHANGED <<history, current_quote>>
                        /\ Len(favorites') = Len(favorites) - 1
                 /\ op \in { "_display_quote", "use_selected", "random_favorite" } =>
                        /\ UNCHANGED favorites
                        /\ Len(history') = Len(history) + 1
                        /\ IsPrefix(history, history')
                        /\ current_quote' = history'[Len(history')].quote]_vars

\* C11 witness: after a save that failed, a later handler of the same session
\* has saved and the files hold the whole session
SaveNeverRaises_witness ==
    /\ running
    /\ failures > 0
    /\ lastOp.op = "toggle_favorite"
    /\ lastOp.io = "ok"
    /\ history # << >>
    /\ FilesSynced

\* C12: is_favorite(q) answers true exactly when q is an element of the
\* favorites held when it is called, and the call changes none of history,
\* favorites, current_quote or the two files.
IsFavoritePure ==
    /\ [](lastOp.op = "is_favorite" =>
             lastOp.ret = (lastOp.arg \in { favorites[i] : i \in DOMAIN favorites }))
    /\ [][lastOp'.op = "is_favorite" =>
             UNCHANGED <<history, favorites, current_quote, favFile, histFile>>]_vars

\* C12 witness: is_favorite has answered true for the second of two favorites
\* that are not the ones on disk
IsFavoritePure_witness ==
    /\ lastOp.op = "is_favorite"
    /\ lastOp.ret = TRUE
    /\ Len(favorites) = 2
    /\ favorites[2] = lastOp.arg
    /\ favFile.text # json_dump(favorites, FALSE)

\* C13: get_random_favorite returns the empty string exactly when favorites
\* is empty and otherwise an element of favorites, and the call leaves
\* history, favorites and current_quote unchanged.
RandomFavoriteContract ==
    /\ [](lastOp.op = "get_random_favorite" =>
             /\ (lastOp.ret = "") = (favorites = << >>)
             /\ favorites # << >> => Contains(favorites, lastOp.ret))
    /\ [][lastOp'.op = "get_random_favorite" =>
             UNCHANGED <<history, favorites, current_quote>>]_vars

\* C13 witness: get_random_favorite has returned the empty string after the
\* stored favorites were all removed
RandomFavoriteContract_witness ==
    /\ lastOp.op = "get_random_favorite"
    /\ lastOp.ret = ""
    /\ favorites = << >>
    /\ LoadFile(favFile) # << >>

\* C14: with threads, requests and the event loop making progress, whenever
\* fetches are under way in a running session, then either the process exits
\* or a state follows in which a quote has been recorded for each of them
\* (the clock has moved on and none is pending) and is_loading is False.
FetchCycleCompletes ==
    \A k \in 1..MaxClock :
        (running /\ Pending > 0 /\ now = k)
            ~> (~running \/ (now > k /\ Pending = 0 /\ queue = << >> /\ ~is_loading))

\* C14 witness: a fetch cycle has run to its end and the session is idle again
FetchCycleCompletes_witness ==
    /\ running
    /\ lastOp.op \in { "_display_quote", "_handle_error" }
    /\ history # << >>
    /\ Pending = 0
    /\ queue = << >>
    /\ ~is_loading

\* C15: every history entry carries a non-empty quote text, and within a
\* session current_quote, once a quote has been displayed, is never empty
\* again, whatever fetches, toggles, removals and favorites-window displays
\* happen.
QuotesNeverEmpty ==
    /\ [](\A i \in DOMAIN history : history[i].quote # "")
    /\ [][(running /\ running' /\ current_quote # "") => current_quote' # ""]_vars

\* C16: stopping auto-refresh cancels only the scheduled tick. While the
\* checkbox is off no timer is pending and auto_refresh_id is None; the step
\* that switches it off leaves the threads, the posted callbacks, is_loading
\* and the history as they were; while it stays off no fetch is started; and
\* a fetch in flight while it is off still gets its quote recorded, unless
\* the process exits first.
StopCancelsOnlyTimer ==
    /\ []((running /\ ~auto_refresh_var) => (timers = {} /\ auto_refresh_id = 0))
    /\ [][(running /\ running' /\ auto_refresh_var /\ ~auto_refresh_var') =>
             UNCHANGED <<threads, queue, is_loading, history, current_quote>>]_vars
    /\ [][(running /\ running' /\ ~auto_refresh_var /\ ~auto_refresh_var') =>
             threads'.start <= threads.start]_vars
    /\ \A k \in 1..MaxClock :
           (running /\ ~auto_refresh_var /\ Pending > 0 /\ now = k)
               ~> (~running \/ now > k)

\* C16 witness: auto-refresh has been switched off with a fetch in flight:
\* no timer is left and the fetch is still under way
StopCancelsOnlyTimer_witness ==
    /\ running
    /\ ~auto_refresh_var
    /\ timers = {}
    /\ auto_refresh_id = 0
    /\ InFlight > 0

\* C17: history follows completion order. A thread whose request ends posts
\* its completion behind every callback posted before it, and the event
\* loop always runs the oldest posted callback: the entry a step appends is
\* the one of the completion that was posted first (the quote it carries, or
\* a fallback for a failure), stamped with the clock of that step.
HistoryFollowsCompletionOrder ==
    /\ [][(running /\ running' /\ threads'.request < threads.request) =>
             (Len(queue') = Len(queue) + 1 /\ IsPrefix(queue, queue'))]_vars
    /\ [][(running /\ running' /\ queue' # queue /\ Len(queue') <= Len(queue)) =>
             /\ queue' = Tail(queue)
             /\ Head(queue).cb = "_show_loading" => history' = history
             /\ Head(queue).cb = "_display_quote" =>
                    history' = Append(history, [quote |-> Head(queue).arg,
                                                timestamp |-> isoformat(now)])
             /\ Head(queue).cb = "_handle_error" =>
                    \E i \in DOMAIN FALLBACK_QUOTES :
                        history' = Append(history, [quote |-> FALLBACK_QUOTES[i],
                                                    timestamp |-> isoformat(now)])]_vars

\* C17 witness: two cycles overlapped; the one that completed first has been
\* recorded and the completion of the other is still waiting in the queue
HistoryFollowsCompletionOrder_witness ==
    /\ running
    /\ lastOp.op = "_display_quote"
    /\ history # << >>
    /\ history[Len(history)].quote \in ApiQuotes
    /\ queue # << >>
    /\ Head(queue).cb = "_handle_error"

\* C18: failures map to a closed set of reasons. A timeout is handled as
\* "timeout", an unreachable network as "connection", every other fault, an
\* empty or missing quote included, as "unknown"; every posted completion is
\* a _display_quote with a non-empty quote or a _handle_error with one of
\* the three reasons, and what _display_quote has just recorded is not empty.
FailureReasonsClosed ==
    /\ \A o \in FetchOutcomes :
           CompletionFor(o) =
               CASE o.kind = "ok" -> Callback("_display_quote", o.quote)
                 [] o.kind = "timeout" -> Callback("_handle_error", "timeout")
                 [] o.kind = "connection" -> Callback("_handle_error", "connection")
                 [] OTHER -> Callback("_handle_error", "unknown")
    /\ \A i \in DOMAIN queue :
           /\ queue[i].cb = "_display_quote" => queue[i].arg # ""
           /\ queue[i].cb = "_handle_error" =>
                  queue[i].arg \in { "timeout", "connection", "unknown" }
           /\ queue[i].cb \in { "_show_loading", "_display_quote", "_handle_error" }
    /\ lastOp.op = "_display_quote" => current_quote # ""

\* C18 witness: the completion a thread posted last is the one an empty
\* response gets, _handle_error("unknown"), behind a timeout's
FailureReasonsClosed_witness ==
    /\ Len(queue) >= 2
    /\ queue[Len(queue)] = CompletionFor([kind |-> "empty", quote |-> ""])
    /\ queue[Len(queue)] = Callback("_handle_error", "unknown")
    /\ \E i \in DOMAIN queue : queue[i] = Callback("_handle_error", "timeout")

LoadingShown ==
    threads.request
    + Cardinality({ i \in DOMAIN queue : queue[i].cb # "_show_loading" })
    - Cardinality({ i \in DOMAIN queue : queue[i].cb = "_show_loading" })

\* C20: while a fetch is in flight whose loading callback has run and whose
\* own completion callback has not, is_loading is True: nothing else, a
\* display from the favorites window included, clears it.
LoadingHeldUntilCompletion ==
    (running /\ LoadingShown > 0) => is_loading

\* C21: at most one auto-refresh timer is pending at any time; between
\* handlers the pending timer is the one auto_refresh_id names, none when it
\* is None; and in a running session auto_refresh_id is not None exactly
\* when the auto-refresh checkbox is on.
OneTimerPending ==
    /\ Cardinality(timers) <= 1
    /\ timers = (IF auto_refresh_id # 0 THEN { auto_refresh_id } ELSE {})
    /\ running => ((auto_refresh_id # 0) = auto_refresh_var)
    /\ ~running => timers = {}

\* C21 witness: auto-refresh is on while a fetch shows its loading state, the
\* one pending timer being the one auto_refresh_id names
OneTimerPending_witness ==
    /\ running
    /\ auto_refresh_var
    /\ is_loading
    /\ auto_refresh_id # 0
    /\ timers = { auto_refresh_id }

\* C22: once quit_app has returned with no write failure the process has
\* left mainloop, no auto-refresh timer is pending and auto_refresh_id is
\* None, the favorites file holds the favorites in memory and the history
\* file the last 50 history entries in memory, those that fallback cycles
\* recorded without saving included.
QuitFlushes ==
    (lastOp.op = "quit_app" /\ lastOp.io = "ok") =>
        /\ ~running
        /\ timers = {}
        /\ auto_refresh_id = 0
        /\ FilesSynced
        /\ LoadFile(favFile) = favorites
        /\ LoadFile(histFile) = LastN(history, HistoryCap)

\* C22 witness: quit_app has flushed a session whose newest entry a failed
\* fetch recorded on top of a live quote
QuitFlushes_witness ==
    /\ lastOp.op = "quit_app"
    /\ lastOp.io = "ok"
    /\ Len(history) = 2
    /\ history[1].quote \in ApiQuotes
    /\ Contains(FALLBACK_QUOTES, history[2].quote)
    /\ favorites = << >>
    /\ StoredOnDisk.value = history

====
